---- MODULE Spec2Model ----
(***************************************************************************)
(* Model of the hierarchy builder of confluence-space-exporter             *)
(* (src/index.js, buildPageTree and the fetchChildren helper it awaits)    *)
(* and of the export run around it (the main block of src/index.js).       *)
(*                                                                         *)
(* Page objects live in a heap `nodes`; a reference is an index into it,   *)
(* so that "the same object" and "a copy with the same id" are different   *)
(* things.  A JavaScript Map is a sequence of [key, val] entries in        *)
(* insertion order.  The remote wiki is the environment: the answer of     *)
(* fetchChildren for an id is chosen when the id is first asked for and    *)
(* stays the same afterwards.                                              *)
(***************************************************************************)
EXTENDS Integers, Sequences, FiniteSets, TLC

\* ---------------------------------------------------------------- bounds
NumIds == 3
MaxInit == 2
MaxEdges == 3
\* the same two bounds for the runs with two invocations of buildPageTree
PairMaxInit == 1
PairMaxEdges == 1

Ids == 1..NumIds
\* cap on the heap; one invocation of buildPageTree never needs more than one
\* node per id
MaxNodes == NumIds + NumIds

\* what pageMap.get returns for a missing key
Undefined == 0

VARIABLES initialPages, nodes, pageMap, childOfMap, queue, head,
          currentPage, children, ci, rootPages, pc, calls, remote,
          mainPc, listing, writes, report, other

\* the state of the export run around the build
mainVars == <<mainPc, listing, writes, report>>

vars == <<initialPages, nodes, pageMap, childOfMap, queue, head,
          currentPage, children, ci, rootPages, pc, calls, remote,
          mainPc, listing, writes, report, other>>

\* ------------------------------------------------------------ JS Map
MapHas(m, k) == \E i \in DOMAIN m : m[i].key = k

MapGet(m, k) ==
  IF MapHas(m, k) THEN m[CHOOSE i \in DOMAIN m : m[i].key = k].val
  ELSE Undefined

MapSet(m, k, v) ==
  IF MapHas(m, k)
  THEN [i \in DOMAIN m |-> IF m[i].key = k THEN [key |-> k, val |-> v] ELSE m[i]]
  ELSE Append(m, [key |-> k, val |-> v])

\* ------------------------------------------------------------ inputs
\* Titles are opaque to buildPageTree: every summary carries a tag that tells
\* where it came from (its position in the listing, or the remote child list).
InitialTitle(i) == i
RemoteTitle(id) == MaxInit + id

SeqsUpTo(S, n) == UNION {[1..k -> S] : k \in 0..n}

\* Ids are opaque to the program, which only compares them for equality, so
\* the inputs are taken up to renaming: when n ids have been seen, the next
\* id that has not been seen before is called n + 1.
InOrderOfDiscovery(n, s) ==
  \A i \in DOMAIN s :
    \A m \in Ids : (m > n /\ m < s[i]) => \E j \in 1..(i - 1) : s[j] = m

InitialPagesInputs ==
  {[i \in DOMAIN s |-> [id |-> s[i], title |-> InitialTitle(i)]] :
     s \in {t \in SeqsUpTo(Ids, MaxInit) : InOrderOfDiscovery(0, t)}}

NotFetched == <<0>>

\* number of child entries the remote has handed out so far
RECURSIVE EdgesUsed(_, _)
EdgesUsed(rm, S) ==
  IF S = {} THEN 0
  ELSE LET x == CHOOSE y \in S : TRUE
       IN (IF rm[x] = NotFetched THEN 0 ELSE Len(rm[x])) + EdgesUsed(rm, S \ {x})

\* ids the remote has shown so far, in the listing or in a child list
SeenIds(pages, rm) ==
  {pages[i].id : i \in DOMAIN pages}
  \cup UNION {{rm[x][i] : i \in DOMAIN rm[x]} : x \in {y \in Ids : rm[y] # NotFetched}}

\* child entries the remote hands out in one run
EdgeBudget == IF other.pc = "none" THEN MaxEdges ELSE PairMaxEdges

\* the child lists the remote may answer with when first asked about a page
FetchResults(rm, seen) ==
  {t \in SeqsUpTo(Ids, EdgeBudget - EdgesUsed(rm, Ids)) :
     InOrderOfDiscovery(Cardinality(seen), t)}

\* the HTTP exchange of fetchChildren ends in one of these ways
ResolveOutcomes == {"ok", "error_json"}
RejectOutcomes == {"network", "not_json"}

\* data.results || []
ResultsOrEmpty(outcome, results) ==
  IF outcome = "ok" THEN results ELSE <<>>

ToSummaries(s) == [i \in DOMAIN s |-> [id |-> s[i], title |-> RemoteTitle(s[i])]]

\* ------------------------------------------------------------ helpers
NewNode(page) == [id |-> page.id, title |-> page.title, children |-> <<>>]

\* line 194: !pageMap.has(page.id)
SeedKnownAlwaysNew(pm, id) == FALSE

SeedKnown(pm, id) == MapHas(pm, id)

RECURSIVE SeedFrom(_, _, _, _)
SeedFrom(pages, ns, pm, q) ==
  IF pages = <<>> THEN [nodes |-> ns, pageMap |-> pm, queue |-> q]
  ELSE LET page == Head(pages)
           ref == Len(ns) + 1
       IN IF ~SeedKnown(pm, page.id)
          THEN SeedFrom(Tail(pages), Append(ns, NewNode(page)),
                        MapSet(pm, page.id, ref), Append(q, ref))
          ELSE SeedFrom(Tail(pages), ns, pm, q)

\* line 213: let childPage = pageMap.get(childData.id)
LookupChildForget(pm, id) == Undefined

LookupChild(pm, id) == MapGet(pm, id)

\* line 222: childPage.children = childPage.children || []  (an array is truthy)
ChildrenOrEmpty(c) == c

\* line 228: currentPage.children.some(c => c.id === childPage.id)
AlreadyChildNever(ns, cur, ref) == FALSE

AlreadyChild(ns, cur, ref) ==
  \E i \in DOMAIN ns[cur].children : ns[ns[cur].children[i]].id = ns[ref].id

\* line 205: queue[head++]
NextInQueueNewestFirst(q, h) == q[Len(q) - h]

NextInQueue(q, h) == q[h + 1]

\* line 235: childOfMap.set(childPage.id, currentPage.id)
RecordParentFirstOnly(com, child, parent) ==
  IF MapHas(com, child) THEN com ELSE MapSet(com, child, parent)

RecordParent(com, child, parent) == MapSet(com, child, parent)

\* line 243: !childOfMap.has(page.id)
IsRootByValue(com, id) == ~ \E i \in DOMAIN com : com[i].val = id

IsRoot(com, id) == ~MapHas(com, id)

\* lines 213-235: the body of the loop over the returned children, on the
\* heap, registry, queue and ParentOf map of the running invocation
ChildStep(st, cur, childData) ==
  LET found == LookupChild(st.pageMap, childData.id)
      isNew == found = Undefined
      childPage == IF isNew THEN Len(st.nodes) + 1 ELSE found
      ns1 == IF isNew THEN Append(st.nodes, NewNode(childData))
             ELSE [st.nodes EXCEPT ![found].children = ChildrenOrEmpty(@)]
      ns2 == IF AlreadyChild(ns1, cur, childPage) THEN ns1
             ELSE [ns1 EXCEPT ![cur].children = Append(@, childPage)]
  IN [nodes |-> ns2,
      pageMap |-> IF isNew THEN MapSet(st.pageMap, childData.id, childPage)
                  ELSE st.pageMap,
      queue |-> IF isNew THEN Append(st.queue, childPage) ELSE st.queue,
      childOfMap |-> RecordParent(st.childOfMap, ns2[childPage].id, ns2[cur].id)]

RootsOfNewestFirst(pm, com, ns) ==
  LET kept == SelectSeq(pm, LAMBDA e : IsRoot(com, ns[e.val].id))
  IN [i \in DOMAIN kept |-> kept[Len(kept) + 1 - i].val]

\* lines 240-246: the registered nodes without a recorded parent, in Map order
RootsOf(pm, com, ns) ==
  LET kept == SelectSeq(pm, LAMBDA e : IsRoot(com, ns[e.val].id))
  IN [i \in DOMAIN kept |-> kept[i].val]

\* ------------------------------------------------------------ vocabulary
Range(s) == {s[i] : i \in DOMAIN s}

InitialIds == {initialPages[i].id : i \in DOMAIN initialPages}

\* ids some fetchChildren call of this build has returned
ReturnedIds == UNION {Range(calls[i].result) : i \in DOMAIN calls}

ObservedIds == InitialIds \cup ReturnedIds

\* how often an id was handed to the builder, over the listing and all results
TimesObserved(id) ==
  Cardinality({i \in DOMAIN initialPages : initialPages[i].id = id})
  + Cardinality({x \in (DOMAIN calls) \X (1..MaxEdges) :
                   /\ x[2] \in DOMAIN calls[x[1]].result
                   /\ calls[x[1]].result[x[2]] = id})

Kids(r) == Range(nodes[r].children)

ChildIds(r) == {nodes[k].id : k \in Kids(r)}

RECURSIVE Closure(_, _)
Closure(S, n) ==
  IF n = 0 THEN S ELSE Closure(S \cup UNION {Kids(r) : r \in S}, n - 1)

Descendants(r) == Closure(Kids(r), MaxNodes)

RootSet == Range(rootPages)

\* the node objects of the returned forest: the roots and all they lead to
ForestRefs == Closure(RootSet, MaxNodes)

OccurrencesInForest(id) ==
  Cardinality({i \in DOMAIN rootPages : nodes[rootPages[i]].id = id})
  + Cardinality({x \in ForestRefs \X (1..MaxNodes) :
                   /\ x[2] \in DOMAIN nodes[x[1]].children
                   /\ nodes[nodes[x[1]].children[x[2]]].id = id})

FailureOutcomes == {"network", "not_json", "error_json"}

\* ------------------------------------------------------------ Init
NoReport == [error |-> "none", pageId |-> Undefined]

\* the locals of an invocation of buildPageTree that has not been called
NotCalled(pages) ==
  [initialPages |-> pages, pageMap |-> <<>>, childOfMap |-> <<>>,
   queue |-> <<>>, head |-> 0, currentPage |-> Undefined, children |-> <<>>,
   ci |-> 0, rootPages |-> <<>>, pc |-> "start", calls |-> <<>>]

\* main calls buildPageTree once: there is no second invocation
NoOther == [NotCalled(<<>>) EXCEPT !.pc = "none"]

Init ==
  /\ initialPages = <<>>
  /\ mainPc = "start"
  /\ listing = [outcome |-> "none", more |-> FALSE]
  /\ writes = <<>>
  /\ report = NoReport
  /\ other = NoOther
  /\ nodes = <<>>
  /\ pageMap = <<>>
  /\ childOfMap = <<>>
  /\ queue = <<>>
  /\ head = 0
  /\ currentPage = Undefined
  /\ children = <<>>
  /\ ci = 0
  /\ rootPages = <<>>
  /\ pc = "start"
  /\ calls = <<>>
  /\ remote = [id \in Ids |-> NotFetched]

\* ------------------------------------------------------------ actions
\* lines 187-199
Seed ==
  /\ mainPc = "build"
  /\ pc = "start"
  /\ LET s == SeedFrom(initialPages, nodes, <<>>, <<>>)
     IN /\ nodes' = s.nodes
        /\ pageMap' = s.pageMap
        /\ queue' = s.queue
  /\ pc' = "loop"
  /\ UNCHANGED <<initialPages, childOfMap, head, currentPage, children, ci,
                 rootPages, calls, remote,
                 mainVars, other>>

\* lines 204-209: take the next page and issue fetchChildren(currentPage.id)
Dequeue ==
  /\ pc = "loop"
  /\ head < Len(queue)
  /\ currentPage' = NextInQueue(queue, head)
  /\ head' = head + 1
  /\ calls' = Append(calls, [id |-> nodes[NextInQueue(queue, head)].id,
                             outcome |-> "pending", result |-> <<>>])
  /\ pc' = "await"
  /\ UNCHANGED <<initialPages, nodes, pageMap, childOfMap, queue, children, ci,
                 rootPages, remote,
                 mainVars, other>>

\* lines 132-142 and 209: the awaited promise fulfils
FetchResolve ==
  /\ pc = "await"
  /\ \E outcome \in ResolveOutcomes :
       \E results \in (IF outcome = "ok" /\ remote[nodes[currentPage].id] = NotFetched
                       THEN FetchResults(remote,
                              SeenIds(initialPages \o other.initialPages, remote))
                       ELSE IF outcome = "ok"
                            THEN {remote[nodes[currentPage].id]}
                            ELSE {<<>>}) :
         LET got == ResultsOrEmpty(outcome, results)
         IN /\ remote' = IF outcome = "ok"
                         THEN [remote EXCEPT ![nodes[currentPage].id] = results]
                         ELSE remote
            /\ calls' = [calls EXCEPT ![Len(calls)] =
                            [id |-> @.id, outcome |-> outcome, result |-> got]]
            /\ children' = ToSummaries(got)
            /\ ci' = 0
            /\ pc' = IF got = <<>> THEN "loop" ELSE "children"
  /\ UNCHANGED <<initialPages, nodes, pageMap, childOfMap, queue, head,
                 currentPage, rootPages,
                 mainVars, other>>

\* lines 132-142 and 209: the awaited promise rejects; nothing catches it
FetchReject ==
  /\ pc = "await"
  /\ \E outcome \in RejectOutcomes :
       calls' = [calls EXCEPT ![Len(calls)] =
                   [id |-> @.id, outcome |-> outcome, result |-> <<>>]]
  /\ pc' = "failed"
  /\ UNCHANGED <<initialPages, nodes, pageMap, childOfMap, queue, head,
                 currentPage, children, ci, rootPages, remote,
                 mainVars, other>>

\* lines 211-236, one iteration of the for loop
ProcessChild ==
  /\ pc = "children"
  /\ ci < Len(children)
  /\ LET childData == children[ci + 1]
         st == ChildStep([nodes |-> nodes, pageMap |-> pageMap, queue |-> queue,
                          childOfMap |-> childOfMap], currentPage, childData)
     IN /\ LookupChild(pageMap, childData.id) = Undefined => Len(nodes) < MaxNodes
        /\ nodes' = st.nodes
        /\ pageMap' = st.pageMap
        /\ queue' = st.queue
        /\ childOfMap' = st.childOfMap
  /\ ci' = ci + 1
  /\ pc' = IF ci + 1 = Len(children) THEN "loop" ELSE "children"
  /\ UNCHANGED <<initialPages, head, currentPage, children, rootPages, calls,
                 remote,
                 mainVars, other>>

\* lines 204 (loop exit) and 239-248
Classify ==
  /\ pc = "loop"
  /\ ~(head < Len(queue))
  /\ rootPages' = RootsOf(pageMap, childOfMap, nodes)
  /\ pc' = "done"
  /\ UNCHANGED <<initialPages, nodes, pageMap, childOfMap, queue, head,
                 currentPage, children, ci, calls, remote,
                 mainVars, other>>

\* ------------------------------------------------------------ export run
\* lines 277-279: mkdir, then fetchPages() is issued and awaited
StartExport ==
  /\ mainPc = "start"
  /\ mainPc' = "listing"
  /\ listing' = [outcome |-> "pending", more |-> FALSE]
  /\ UNCHANGED <<initialPages, nodes, pageMap, childOfMap, queue, head,
                 currentPage, children, ci, rootPages, pc, calls, remote,
                 writes, report, other>>

\* lines 76-86 and 279: the one listing request fulfils; `more` tells whether the
\* space holds further pages beyond this response (its _links.next), which
\* fetchPages does not look at.  Only a response filled up to the request's
\* limit (MaxInit entries here) is followed by further ones.
ListingResolve ==
  /\ mainPc = "listing"
  /\ \E outcome \in ResolveOutcomes :
       \E pages \in (IF outcome = "ok" THEN InitialPagesInputs ELSE {<<>>}) :
         \E more \in (IF outcome = "ok" /\ Len(pages) = MaxInit
                      THEN BOOLEAN ELSE {FALSE}) :
           /\ initialPages' = pages
           /\ listing' = [outcome |-> outcome, more |-> more]
  /\ mainPc' = "build"
  /\ UNCHANGED <<nodes, pageMap, childOfMap, queue, head,
                 currentPage, children, ci, rootPages, pc, calls, remote,
                 writes, report, other>>

\* lines 76-86 and 279: the listing request rejects; main has no catch
ListingReject ==
  /\ mainPc = "listing"
  /\ \E outcome \in RejectOutcomes :
       /\ listing' = [outcome |-> outcome, more |-> FALSE]
       /\ report' = [error |-> outcome, pageId |-> Undefined]
  /\ mainPc' = "crashed"
  /\ UNCHANGED <<initialPages, nodes, pageMap, childOfMap, queue, head,
                 currentPage, children, ci, rootPages, pc, calls, remote,
                 writes, other>>

\* what the runtime prints for the unhandled rejection: the error as fetch or
\* res.json() produced it; neither buildPageTree nor main adds the page id.
\* Whether a network error names the requested URL depends on the runtime.
UnhandledReports(call) ==
  {[error |-> call.outcome, pageId |-> x] :
     x \in (IF call.outcome = "network" THEN {Undefined, call.id} ELSE {Undefined})}

\* lines 209 and 296: the rejection of fetchChildren leaves buildPageTree and
\* main uncaught
BuildRejects ==
  /\ mainPc = "build"
  /\ pc = "failed"
  /\ report' \in UnhandledReports(calls[Len(calls)])
  /\ mainPc' = "crashed"
  /\ UNCHANGED <<initialPages, nodes, pageMap, childOfMap, queue, head,
                 currentPage, children, ci, rootPages, pc, calls, remote,
                 listing, writes, other>>

\* lines 254-267: generateHtmlList follows children lists and never returns
\* when a node of the forest leads back to itself
RenderDiverges == \E r \in ForestRefs : r \in Descendants(r)

\* entries of the log of files written below outputDir
IndexFile == [file |-> "index.html", page |-> Undefined]
PageHtmlFile(id) == [file |-> "page.html", page |-> id]
AttachmentFiles(id) == [file |-> "attachments", page |-> id]

\* lines 269-274 and 296-299: the forest is rendered and index.html written
GenerateIndex ==
  /\ mainPc = "build"
  /\ pc = "done"
  /\ ~RenderDiverges
  /\ writes' = Append(writes, IndexFile)
  /\ mainPc' = "finished"
  /\ UNCHANGED <<initialPages, nodes, pageMap, childOfMap, queue, head,
                 currentPage, children, ci, rootPages, pc, calls, remote,
                 listing, report, other>>

\* lines 254-267 and 297: the recursion exhausts the stack, nothing is written
RenderOverflow ==
  /\ mainPc = "build"
  /\ pc = "done"
  /\ RenderDiverges
  /\ report' = [error |-> "stack_overflow", pageId |-> Undefined]
  /\ mainPc' = "crashed"
  /\ UNCHANGED <<initialPages, nodes, pageMap, childOfMap, queue, head,
                 currentPage, children, ci, rootPages, pc, calls, remote,
                 listing, writes, other>>

Next ==
  \/ StartExport
  \/ ListingResolve
  \/ ListingReject
  \/ BuildRejects
  \/ GenerateIndex
  \/ RenderOverflow
  \/ Seed
  \/ Dequeue
  \/ FetchResolve
  \/ FetchReject
  \/ ProcessChild
  \/ Classify

Spec == Init /\ [][Next]_vars

\* buildPageTree on its own: called with any list of page summaries
BuildInit ==
  /\ initialPages \in InitialPagesInputs
  /\ mainPc = "build"
  /\ listing = [outcome |-> "ok", more |-> FALSE]
  /\ writes = <<>>
  /\ report = NoReport
  /\ other = NoOther
  /\ nodes = <<>>
  /\ pageMap = <<>>
  /\ childOfMap = <<>>
  /\ queue = <<>>
  /\ head = 0
  /\ currentPage = Undefined
  /\ children = <<>>
  /\ ci = 0
  /\ rootPages = <<>>
  /\ pc = "start"
  /\ calls = <<>>
  /\ remote = [id \in Ids |-> NotFetched]

BuildNext ==
  \/ Seed
  \/ Dequeue
  \/ FetchResolve
  \/ FetchReject
  \/ ProcessChild
  \/ Classify

\* every awaited call settles and the event loop keeps running the continuation
LiveSpec == BuildInit /\ [][BuildNext]_vars /\ WF_vars(BuildNext)

\* ------------------------------------------------------------ two invocations
\* Two invocations of buildPageTree on one event loop.  The variables hold the
\* locals of the invocation that is running, `other` those of the suspended
\* one; the heap and the remote are the same for both.

\* lines 187-192: pageMap is created inside the function, so an invocation
\* that resumes finds the registry it left
ResumedRegistryShared(saved, running) == running

ResumedRegistry(saved, running) == saved

RunningLocals ==
  [initialPages |-> initialPages, pageMap |-> pageMap, childOfMap |-> childOfMap,
   queue |-> queue, head |-> head, currentPage |-> currentPage,
   children |-> children, ci |-> ci, rootPages |-> rootPages, pc |-> pc,
   calls |-> calls]

\* line 209: at its await (or when it has ended) the running invocation gives
\* way, and the event loop goes on with the other one
Switch ==
  /\ pc \in {"await", "done", "failed"}
  /\ other.pc \in {"start", "await"}
  /\ other' = RunningLocals
  /\ initialPages' = other.initialPages
  /\ pageMap' = ResumedRegistry(other.pageMap, pageMap)
  /\ childOfMap' = other.childOfMap
  /\ queue' = other.queue
  /\ head' = other.head
  /\ currentPage' = other.currentPage
  /\ children' = other.children
  /\ ci' = other.ci
  /\ rootPages' = other.rootPages
  /\ pc' = other.pc
  /\ calls' = other.calls
  /\ UNCHANGED <<nodes, remote, mainVars>>

\* the listings a second caller may pass when n ids are known already
PagesInputsAfter(n) ==
  {[i \in DOMAIN s |-> [id |-> s[i], title |-> InitialTitle(i)]] :
     s \in {t \in SeqsUpTo(Ids, PairMaxInit) : InOrderOfDiscovery(n, t)}}

PairInit ==
  /\ initialPages \in PagesInputsAfter(0)
  /\ other \in {NotCalled(pages) :
                  pages \in PagesInputsAfter(
                     Cardinality({initialPages[i].id : i \in DOMAIN initialPages}))}
  /\ mainPc = "build"
  /\ listing = [outcome |-> "ok", more |-> FALSE]
  /\ writes = <<>>
  /\ report = NoReport
  /\ nodes = <<>>
  /\ pageMap = <<>>
  /\ childOfMap = <<>>
  /\ queue = <<>>
  /\ head = 0
  /\ currentPage = Undefined
  /\ children = <<>>
  /\ ci = 0
  /\ rootPages = <<>>
  /\ pc = "start"
  /\ calls = <<>>
  /\ remote = [id \in Ids |-> NotFetched]

PairNext ==
  \/ Seed
  \/ Dequeue
  \/ FetchResolve
  \/ FetchReject
  \/ ProcessChild
  \/ Classify
  \/ Switch

PairSpec == PairInit /\ [][PairNext]_vars

\* buildPageTree run to its end without interruption, on a heap of its own:
\* lines 186-249 with the answers `ans` of fetchChildren
RECURSIVE AloneChildren(_, _, _)
AloneChildren(st, cur, kids) ==
  IF kids = <<>> THEN st
  ELSE AloneChildren(ChildStep(st, cur, Head(kids)), cur, Tail(kids))

RECURSIVE AloneLoop(_, _, _)
AloneLoop(st, h, ans) ==
  IF ~(h < Len(st.queue)) THEN st
  ELSE LET cur == NextInQueue(st.queue, h)
       IN AloneLoop(AloneChildren(st, cur, ToSummaries(ans[st.nodes[cur].id])),
                    h + 1, ans)

RunAlone(pages, ans) ==
  LET s == SeedFrom(pages, <<>>, <<>>, <<>>)
      st == AloneLoop([nodes |-> s.nodes, pageMap |-> s.pageMap,
                       queue |-> s.queue, childOfMap |-> <<>>], 0, ans)
  IN [nodes |-> st.nodes, pageMap |-> st.pageMap,
      rootPages |-> RootsOf(st.pageMap, st.childOfMap, st.nodes)]

\* what fetchChildren answered in the calls of one invocation
AnswersOf(log) ==
  [id \in Ids |->
     IF \E i \in DOMAIN log : log[i].id = id /\ log[i].outcome \in ResolveOutcomes
     THEN log[CHOOSE i \in DOMAIN log :
                log[i].id = id /\ log[i].outcome \in ResolveOutcomes].result
     ELSE <<>>]

\* a forest up to the identity of its node objects: the ids of the roots in
\* order, and for every registered id the ids of its children in order
ShapeOf(ns, pm, roots) ==
  [roots |-> [i \in DOMAIN roots |-> ns[roots[i]].id],
   kids |-> [id \in {pm[i].key : i \in DOMAIN pm} |->
               [k \in DOMAIN ns[MapGet(pm, id)].children |->
                  ns[ns[MapGet(pm, id)].children[k]].id]]]

AloneShape(pages, log) ==
  LET a == RunAlone(pages, AnswersOf(log))
  IN ShapeOf(a.nodes, a.pageMap, a.rootPages)

\* ------------------------------------------------------------ claims

\* C1: after the build every observed id occurs exactly once in the returned
\* forest, as a root or in the children list of exactly one node.
C1_CoverageExactlyOnce ==
  pc = "done" => \A id \in ObservedIds : OccurrencesInForest(id) = 1

\* C2: a page returned by the fetches of two pages ends up in the children
\* list of the one processed last only, not in the earlier one's, and is no root.
C2_LastParentOnly ==
  pc = "done" =>
    \A i \in DOMAIN calls : \A j \in DOMAIN calls : \A c \in Ids :
      ( /\ i < j
        /\ calls[i].id # calls[j].id
        /\ c \in Range(calls[i].result)
        /\ c \in Range(calls[j].result)
        /\ \A k \in DOMAIN calls : k > j => c \notin Range(calls[k].result) )
      => /\ c \in ChildIds(MapGet(pageMap, calls[j].id))
         /\ c \notin ChildIds(MapGet(pageMap, calls[i].id))
         /\ \A r \in RootSet : nodes[r].id # c

\* C3: the number of distinct node objects in the returned forest equals the
\* number of distinct ids observed.
C3_ForestSizeIsObservedIds ==
  pc = "done" => Cardinality(ForestRefs) = Cardinality(ObservedIds)

\* C4: no node of the returned forest is reachable from itself through
\* children lists.
C4_ForestAcyclic ==
  pc = "done" => \A r \in ForestRefs : r \notin Descendants(r)

IsRegistered(r) ==
  /\ r \in DOMAIN nodes
  /\ MapGet(pageMap, nodes[r].id) = r

RegistryInv ==
  /\ \A i \in DOMAIN pageMap : \A j \in DOMAIN pageMap :
       pageMap[i].key = pageMap[j].key => i = j
  /\ \A i \in DOMAIN pageMap :
       /\ pageMap[i].val \in DOMAIN nodes
       /\ nodes[pageMap[i].val].id = pageMap[i].key
  /\ \A r \in DOMAIN nodes : \A k \in Kids(r) : IsRegistered(k)
  /\ \A i \in DOMAIN queue : IsRegistered(queue[i])

RegistryStable ==
  \A i \in DOMAIN pageMap : i \in DOMAIN pageMap' /\ pageMap'[i] = pageMap[i]

\* C5: the registry holds at most one node per id, a registered node is never
\* replaced or removed, and every reference in a children list or in the queue
\* is the registered node of its id.
C5_SingleRegisteredNode == [](RegistryInv) /\ [][RegistryStable]_vars

\* an id that was already registered came back in a fetch result and was
\* resolved to the node registered before
C5_Witness ==
  /\ pc = "done"
  /\ \E i \in DOMAIN calls : \E c \in Range(calls[i].result) :
       /\ TimesObserved(c) >= 2
       /\ MapGet(pageMap, c) \in Kids(MapGet(pageMap, calls[i].id))
       /\ MapGet(pageMap, c) < MapGet(pageMap, calls[i].id)

\* C6: no children list ever holds two entries with the same id.
C6_NoDuplicateEdges ==
  \A r \in DOMAIN nodes :
    \A i \in DOMAIN nodes[r].children : \A j \in DOMAIN nodes[r].children :
      nodes[nodes[r].children[i]].id = nodes[nodes[r].children[j]].id => i = j

\* one fetch result listed the same child twice and was processed completely
C6_Witness ==
  /\ pc = "done"
  /\ \E k \in DOMAIN calls :
       \E i \in DOMAIN calls[k].result : \E j \in DOMAIN calls[k].result :
         /\ i # j
         /\ calls[k].result[i] = calls[k].result[j]
         /\ calls[k].result[i] \in ChildIds(MapGet(pageMap, calls[k].id))

\* C7: fetchChildren is invoked at most once per id, and when the build
\* completes it has been invoked exactly once for every observed id.
C7_OneFetchPerId ==
  /\ \A i \in DOMAIN calls : \A j \in DOMAIN calls :
       calls[i].id = calls[j].id => i = j
  /\ pc = "done" => {calls[i].id : i \in DOMAIN calls} = ObservedIds

\* the build completed although an id occurred twice in the listing and an id
\* was returned more than once by the fetches
C7_Witness ==
  /\ pc = "done"
  /\ \E i \in DOMAIN initialPages : \E j \in DOMAIN initialPages :
       i # j /\ initialPages[i].id = initialPages[j].id
  /\ \E c \in ReturnedIds : TimesObserved(c) >= 3

\* C8: when no fetchChildren call fails the build terminates: the queue
\* drains and the roots are returned.
C8_Termination == [](pc # "failed") => <>(pc = "done")

\* a build over self-referential child data has returned
C8_Witness ==
  /\ pc = "done"
  /\ \E r \in DOMAIN nodes : r \in Descendants(r)
  /\ \A i \in DOMAIN calls : calls[i].outcome = "ok"

\* C9: a registered node is returned as a root iff its id was never returned
\* by a fetchChildren call of the build.
C9_RootIffNeverReturned ==
  pc = "done" =>
    /\ \A r \in RootSet : IsRegistered(r)
    /\ \A i \in DOMAIN pageMap :
         pageMap[i].val \in RootSet <=> pageMap[i].key \notin ReturnedIds

\* a listed page was returned as a child and is no root, another listed page
\* is a root and has children
C9_Witness ==
  /\ pc = "done"
  /\ \E id \in InitialIds \cap ReturnedIds : MapGet(pageMap, id) \notin RootSet
  /\ \E r \in RootSet : nodes[r].id \in InitialIds /\ Kids(r) # {}

\* C10: a failed fetchChildren call aborts the build: the failure reaches the
\* caller, it is the last call issued and no forest is returned.
C10_FetchFailureAborts ==
  \A i \in DOMAIN calls :
    calls[i].outcome \in FailureOutcomes => pc = "failed" /\ i = Len(calls)

IndexWrites == {k \in DOMAIN writes : writes[k] = IndexFile}

\* C11: when a child fetch fails the export stops and the failure report
\* names the page id whose fetchChildren call failed.
C11_FailureReportNamesPage ==
  \A i \in DOMAIN calls :
    calls[i].outcome \in FailureOutcomes =>
      /\ i = Len(calls)
      /\ mainPc # "finished"
      /\ mainPc = "crashed" => report.pageId = calls[i].id

\* C13: before the index file is generated, every listed page has had its
\* HTML file saved in its folder and its attachments downloaded there.
C13_PagesSavedBeforeIndex ==
  \A k \in IndexWrites : \A i \in DOMAIN initialPages :
    /\ \E j \in 1..(k - 1) : writes[j] = PageHtmlFile(initialPages[i].id)
    /\ \E j \in 1..(k - 1) : writes[j] = AttachmentFiles(initialPages[i].id)

\* C14: the flat list handed to buildPageTree holds every page of the space,
\* also when the space has more pages than one listing response carries.
C14_ListingComplete ==
  (mainPc = "build" /\ listing.outcome = "ok") => ~listing.more

\* C20: index.html is written at most once and only after buildPageTree has
\* returned; when the listing or the build failed it is never written.
C20_IndexOnlyAfterSuccessfulBuild ==
  /\ Cardinality(IndexWrites) <= 1
  /\ IndexWrites # {} => pc = "done"
  /\ ( \/ listing.outcome \in FailureOutcomes
       \/ \E i \in DOMAIN calls : calls[i].outcome \in FailureOutcomes )
     => IndexWrites = {}

\* the result of call i has been worked into registry, children and ParentOf
Processed(i) ==
  /\ calls[i].outcome \in ResolveOutcomes
  /\ \A c \in Range(calls[i].result) :
       /\ MapHas(pageMap, c)
       /\ c \in ChildIds(MapGet(pageMap, calls[i].id))
       /\ MapHas(childOfMap, c)

\* C12: fetchChildren calls are issued one at a time in the order in which the
\* pages entered the registry, each only after the result of the one before
\* has been processed completely; at most one call is outstanding.
C12_OneCallAtATimeInFifoOrder ==
  /\ Cardinality({i \in DOMAIN calls : calls[i].outcome = "pending"}) <= 1
  /\ \A i \in DOMAIN calls :
       /\ i \in DOMAIN pageMap
       /\ calls[i].id = pageMap[i].key
       /\ i < Len(calls) => Processed(i)

\* a build with three calls, one of them for a page found only as a child
C12_Witness ==
  /\ pc = "done"
  /\ Len(calls) >= 3
  /\ ReturnedIds \ InitialIds # {}
  /\ Len(initialPages) >= 2

LastCallReturning(c) ==
  CHOOSE i \in DOMAIN calls :
    /\ c \in Range(calls[i].result)
    /\ \A k \in DOMAIN calls : k > i => c \notin Range(calls[k].result)

\* C16: after the build the ParentOf map gives every returned id the id of the
\* last processed page whose result contained it, and has no other entry.
C16_ParentOfIsLastObserver ==
  pc = "done" =>
    /\ \A c \in ReturnedIds :
         MapGet(childOfMap, c) = calls[LastCallReturning(c)].id
    /\ \A i \in DOMAIN childOfMap : childOfMap[i].key \in ReturnedIds

\* a page was returned by the fetches of two different pages
C16_Witness ==
  /\ pc = "done"
  /\ \E i \in DOMAIN calls : \E j \in DOMAIN calls :
       /\ i < j
       /\ calls[i].id # calls[j].id
       /\ Range(calls[i].result) \cap Range(calls[j].result) # {}

\* a sequence without its later duplicates
RECURSIVE KeepFirst(_, _)
KeepFirst(s, seen) ==
  IF s = <<>> THEN <<>>
  ELSE IF Head(s) \in seen THEN KeepFirst(Tail(s), seen)
       ELSE <<Head(s)>> \o KeepFirst(Tail(s), seen \cup {Head(s)})

InitialIdSeq == [i \in DOMAIN initialPages |-> initialPages[i].id]

RootIdSeq == [i \in DOMAIN rootPages |-> nodes[rootPages[i]].id]

\* C17: the roots are listed in registry order, all of them come from
\* initialPages, so they appear in the order of their first occurrence there.
C17_RootsInListingOrder ==
  pc = "done" =>
    RootIdSeq = SelectSeq(KeepFirst(InitialIdSeq, {}),
                          LAMBDA id : id \notin ReturnedIds)

\* two roots were returned and a page was found only as a child
C17_Witness ==
  /\ pc = "done"
  /\ Len(rootPages) >= 2
  /\ ReturnedIds \ InitialIds # {}

ChildIdSeq(r) == [i \in DOMAIN nodes[r].children |-> nodes[nodes[r].children[i]].id]

FirstIndexOf(id) ==
  CHOOSE i \in DOMAIN initialPages :
    /\ initialPages[i].id = id
    /\ \A j \in 1..(i - 1) : initialPages[j].id # id

\* C19: an id repeated in initialPages gets exactly one node, enqueued once and
\* holding the title of its first occurrence; the queue never holds an id
\* twice, and its ids are exactly the ids of the registry.
C19_SeedingDeduplicates ==
  /\ pc # "start" =>
       \A id \in InitialIds :
         LET refs == {r \in DOMAIN nodes : nodes[r].id = id}
         IN /\ Cardinality(refs) = 1
            /\ \A r \in refs :
                 /\ nodes[r].title = initialPages[FirstIndexOf(id)].title
                 /\ Cardinality({k \in DOMAIN queue : queue[k] = r}) = 1
  /\ \A i \in DOMAIN queue : \A j \in DOMAIN queue :
       nodes[queue[i]].id = nodes[queue[j]].id => i = j
  /\ {nodes[queue[i]].id : i \in DOMAIN queue}
       = {pageMap[i].key : i \in DOMAIN pageMap}

\* a listing that repeats an id has been built completely
C19_Witness ==
  /\ pc = "done"
  /\ \E i \in DOMAIN initialPages : \E j \in DOMAIN initialPages :
       i < j /\ initialPages[i].id = initialPages[j].id
  /\ ReturnedIds # {}

\* C15: two invocations of buildPageTree whose awaited steps interleave do
\* not disturb each other: each returns the forest it returns when run alone
\* on its own initialPages and fetchChildren answers.
C15_IndependentBuilds ==
  /\ pc = "done" =>
       ShapeOf(nodes, pageMap, rootPages) = AloneShape(initialPages, calls)
  /\ other.pc = "done" =>
       ShapeOf(nodes, other.pageMap, other.rootPages)
         = AloneShape(other.initialPages, other.calls)

\* both invocations have returned, their calls were interleaved, and both
\* asked the remote about the same page
C15_Witness ==
  /\ pc = "done"
  /\ other.pc = "done"
  /\ Len(calls) >= 2
  /\ Len(other.calls) >= 2
  /\ \E i \in DOMAIN calls : \E j \in DOMAIN other.calls :
       /\ calls[i].id = other.calls[j].id
       /\ calls[i].result # <<>>
  /\ Len(nodes) > Len(pageMap)

====
